---- MODULE Spec2Model ----
\* The mogi process execution engine (src/mogi.ts): MogiSimulation, MogiProcess,
\* MogiNode, MogiConditionalProcess, with the capability interface AIService
\* (src/mogi.d.ts, lines 226-278) as the environment.
EXTENDS Integers, Sequences, FiniteSets, TLC

\* ------------------------------------------------------------------ bounds

\* The largest number of nodes the process objects are built with: the shared
\* prefix of the conditional process, its true branch and its false branch.
MaxPrefix == 1
MaxTrue == 2
MaxFalse == 1
\* How many times the caller calls initializeProcess.
MaxRuns == 2
\* Where process objects are reset and stepped again, steps are explored while
\* the histories of the active agents are shorter than this.
MaxHist == 2
\* The number of nodes of the true branch in the runs where agents share it.
MaxShared == 3
\* Token counts the capability reports for one call (usageMetadata).
PromptTokens == 2
CandidateTokens == 1

\* ------------------------------------------------------- the configuration

\* README step 3: the agents of the simulation, in the order they are registered.
AgentNames == <<"Jake", "John">>
AgentIds == {AgentNames[i] : i \in 1..Len(AgentNames)}

\* README step 3: the heights agents are registered with.
Heights == {140, 180}
\* README step 6: heightCondition(150, 200).
MinHeight == 150
MaxHeight == 200

\* The process objects: one conditional process and its two branch processes,
\* each of which is a MogiProcess that can also be run on its own.
Flow == "height-check-flow"
trueBranch == "full-ride"
falseBranch == "short-exit"
Procs == {Flow, trueBranch, falseBranch}
Linear == {trueBranch, falseBranch}

\* Two capability instances; the prefix and the true branch share one.
Services == {"gemini", "other"}
ServiceOf(p) == IF p = falseBranch THEN "other" ELSE "gemini"

\* A node object: MogiNode(id, config).
MkNode(p, i) ==
  [id |-> <<p, i>>, aiService |-> ServiceOf(p), useChainOfThought |-> (i % 2 = 0)]

\* What a capability call can produce: a reply text, or an exception.
Throw == "throw"
Garbage == "not json"
ReplyTexts == {"{\"height\":140}", "{\"height\":180}", Garbage}
Outcomes == ReplyTexts \cup {Throw}
\* The well-formed reply of the runs in which calls answer or fail.
Answer == "{\"height\":140}"
Reasoning == "because"
Undefined == "undefined"

ZeroUsage ==
  [totalCalls |-> 0, totalInputTokens |-> 0, totalOutputTokens |-> 0, estimatedCost |-> 0]

VARIABLES
  agents,            \* MogiSimulation.agents: the Map, in insertion order
  currentState,      \* MogiSimulation.currentState
  executionQueue,    \* MogiSimulation.executionQueue
  processes,         \* MogiSimulation.processes
  aiServices,        \* MogiSimulation.aiServices
  globalUsage,       \* MogiSimulation.globalUsage
  usageStats,        \* AIService.usageStats, per capability instance
  nodes,             \* MogiProcess.nodes, per process object
  currentNodeIndex,  \* MogiProcess.currentNodeIndex, per process object
  branchStates,      \* MogiConditionalProcess.branchStates
  pending,           \* the executeStep call in progress and the executions it awaits
  overlap,           \* an executeStep call invoked while another is in progress
  lastCall           \* the last call made on the engine and what it returned

vars == <<agents, currentState, executionQueue, processes, aiServices, globalUsage,
          usageStats, nodes, currentNodeIndex, branchStates, pending, overlap, lastCall>>

\* ------------------------------------------------------------ AIService

\* GoogleAIService.calculateCost, in units of 10^-8 dollars:
\* (tokens / 1_000_000) * 0.15 and (tokens / 1_000_000) * 0.60.
calculateCost(inputTokens, outputTokens) == inputTokens * 15 + outputTokens * 60

\* GoogleAIService.updateUsage: one answered call.
updateUsage(stats) ==
  [totalCalls |-> stats.totalCalls + 1,
   totalInputTokens |-> stats.totalInputTokens + PromptTokens,
   totalOutputTokens |-> stats.totalOutputTokens + CandidateTokens,
   estimatedCost |-> stats.estimatedCost + calculateCost(PromptTokens, CandidateTokens)]

\* AIService.getUsageStats / resetUsageStats.
getUsageStats(usage, service) == usage[service]
resetUsageStats(usage, service) == [usage EXCEPT ![service] = ZeroUsage]

\* The reply of prompt / promptThinking for a text: a string, or with
\* chain-of-thought the array [text, reasoning].
Respond(node, text) ==
  IF node.useChainOfThought
    THEN [isArray |-> TRUE, items |-> <<text, Reasoning>>]
    ELSE [isArray |-> FALSE, items |-> <<text>>]

\* ------------------------------------------------------------- MogiNode

\* JSON.parse on the reply texts of the model.
IsJSON(text) == text # Garbage
JSONParse(text) ==
  IF text = "{\"height\":140}" THEN [k \in {"height"} |-> 140]
  ELSE [k \in {"height"} |-> 180]

\* { ...a, ...b }
Spread(a, b) ==
  [k \in (DOMAIN a) \cup (DOMAIN b) |-> IF k \in DOMAIN b THEN b[k] ELSE a[k]]

\* parseAIReponse(response)
parseAIReponse(response) ==
  LET parts == IF response.isArray THEN response.items ELSE <<response.items[1]>>
      jsonStr == parts[1]
      reasoning == IF Len(parts) >= 2 THEN parts[2] ELSE Undefined
  IN IF IsJSON(jsonStr)
       THEN Spread(JSONParse(jsonStr), [k \in {"_reasoning"} |-> reasoning])
       ELSE [k \in {"_error", "_raw"} |->
               IF k = "_error" THEN "Invalid AI response" ELSE response]

\* (mutant) the merge is written the other way round: earlier values win.
applyChangesKeepsOld(node, agent, changes) ==
  [agent EXCEPT
     !.attributes = Spread(changes, @),
     !.history = Append(@, [nodeId |-> node.id,
                            changes |-> changes,
                            reasoning |-> IF "_reasoning" \in DOMAIN changes
                                            THEN changes["_reasoning"]
                                            ELSE Undefined])]

\* MogiNode.applyChanges(agent, changes); the timestamp is left out.
applyChanges(node, agent, changes) ==
  [agent EXCEPT
     !.attributes = Spread(@, changes),
     !.history = Append(@, [nodeId |-> node.id,
                            changes |-> changes,
                            reasoning |-> IF "_reasoning" \in DOMAIN changes
                                            THEN changes["_reasoning"]
                                            ELSE Undefined])]

\* (mutant) a failed call is recorded as a change set with an error marker.
NodeExecuteRecordsFailure(node, agent, out) ==
  IF out = Throw
    THEN applyChanges(node, agent, [k \in {"_error"} |-> "call failed"])
    ELSE applyChanges(node, agent, parseAIReponse(Respond(node, out)))

\* (mutant) a reply that does not parse fails the node like a failed call.
NodeExecuteStrict(node, agent, out) ==
  IF out = Throw \/ ~IsJSON(out)
    THEN agent
    ELSE applyChanges(node, agent, parseAIReponse(Respond(node, out)))

\* MogiNode.execute(agent): handler, then applyChanges; a throwing capability
\* call is caught and logged.
NodeExecute(node, agent, out) ==
  IF out = Throw
    THEN agent
    ELSE applyChanges(node, agent, parseAIReponse(Respond(node, out)))

\* The capability's own counters after the call made by MogiNode.handler.
UsageAfter(usage, node, out) ==
  IF out = Throw THEN usage ELSE [usage EXCEPT ![node.aiService] = updateUsage(@)]

\* -------------------------------------------------- the engine's state

\* Map lookups on a value of the agents Map.
AgentKeys(ags) == [i \in 1..Len(ags) |-> ags[i].id]
HasAgent(ags, id) == \E i \in 1..Len(ags) : ags[i].id = id
AgentIndex(ags, id) == CHOOSE i \in 1..Len(ags) : ags[i].id = id
getAgentState(ags, id) == ags[AgentIndex(ags, id)]

\* An execution in progress: the objects a step reads and writes.
Frame == [agents |-> agents, usageStats |-> usageStats,
          currentNodeIndex |-> currentNodeIndex, branchStates |-> branchStates,
          hasMoreSteps |-> FALSE, calls |-> <<>>, evals |-> <<>>]

\* node.execute(agent) within an execution in progress.
ExecNode(st, node, id, out) ==
  [st EXCEPT
     !.agents[AgentIndex(st.agents, id)] = NodeExecute(node, @, out),
     !.usageStats = UsageAfter(@, node, out),
     !.calls = Append(@, [agentId |-> id, nodeId |-> node.id, out |-> out])]

\* ---------------------------------------------------------- MogiProcess

\* (mutant) the conditional process resets its own cursor only.
resetExecutionOwnCursor(p, st) == [st EXCEPT !.currentNodeIndex[p] = 0]

\* MogiProcess.resetExecution / MogiConditionalProcess.resetExecution.
resetExecution(p, st) ==
  IF p = Flow
    THEN [st EXCEPT !.currentNodeIndex =
                      [q \in Procs |-> IF q \in {Flow, trueBranch, falseBranch} THEN 0 ELSE @[q]],
                    !.branchStates = <<>>]
    ELSE [st EXCEPT !.currentNodeIndex[p] = 0]

\* (mutant) the node is executed and the cursor is left where it was.
executeAgentStepNoAdvance(p, st, id, out) ==
  IF st.currentNodeIndex[p] < Len(nodes[p])
    THEN [st |-> ExecNode(st, nodes[p][st.currentNodeIndex[p] + 1], id, out),
          ret |-> TRUE]
    ELSE [st |-> st, ret |-> FALSE]

\* MogiProcess.executeAgentStep(agent): the execution after it, and what it returns.
executeAgentStep(p, st, id, out) ==
  IF st.currentNodeIndex[p] < Len(nodes[p])
    THEN [st |-> [ExecNode(st, nodes[p][st.currentNodeIndex[p] + 1], id, out)
                    EXCEPT !.currentNodeIndex[p] = @ + 1],
          ret |-> TRUE]
    ELSE [st |-> st, ret |-> FALSE]

\* MogiProcess.getAIServices / MogiConditionalProcess.getAIServices.
NodeServices(p) == [i \in 1..Len(nodes[p]) |-> nodes[p][i].aiService]
getAIServices(p) ==
  IF p = Flow
    THEN NodeServices(Flow) \o NodeServices(trueBranch) \o NodeServices(falseBranch)
    ELSE NodeServices(p)

\* ----------------------------------------------- MogiConditionalProcess

\* README step 6: the predicate of the conditional process.
condition(agent) ==
  /\ "height" \in DOMAIN agent.attributes
  /\ agent.attributes["height"] # 0
  /\ agent.attributes["height"] >= MinHeight
  /\ agent.attributes["height"] <= MaxHeight

\* (mutant) the predicate is evaluated on every step of the branch phase.
BindBranchAlways(st, id) ==
  LET branch == IF condition(getAgentState(st.agents, id)) THEN trueBranch ELSE falseBranch
  IN IF id \in DOMAIN st.branchStates /\ st.branchStates[id].branch = branch
       THEN st
       ELSE [resetExecution(branch, st) EXCEPT !.branchStates =
               (id :> [branch |-> branch, completed |-> FALSE]) @@ @]

\* this.condition(agent): the call is noted in the execution.
Evaluate(st, id) ==
  [st EXCEPT !.evals = Append(@, [agentId |-> id,
                                  attributes |-> getAgentState(st.agents, id).attributes])]

\* (mutant) the predicate is evaluated before the binding is looked up.
BindBranchEager(st, id) ==
  LET branch == IF condition(getAgentState(st.agents, id)) THEN trueBranch ELSE falseBranch
  IN IF id \in DOMAIN st.branchStates
       THEN Evaluate(st, id)
       ELSE [resetExecution(branch, Evaluate(st, id)) EXCEPT !.branchStates =
               (id :> [branch |-> branch, completed |-> FALSE]) @@ @]

\* The binding made on an agent's first entry into the branch phase.
BindBranch(st, id) ==
  IF id \in DOMAIN st.branchStates
    THEN st
    ELSE LET branch == IF condition(getAgentState(st.agents, id))
                         THEN trueBranch ELSE falseBranch
             st1 == resetExecution(branch, Evaluate(st, id))
         IN [st1 EXCEPT !.branchStates =
                          (id :> [branch |-> branch, completed |-> FALSE]) @@ @]

\* (mutant) the completion flag is set to branchHasSteps, not to its negation.
ConditionalAgentFlag(self, st, id, out) ==
  IF st.currentNodeIndex[self] < Len(nodes[self])
    THEN [ExecNode(st, nodes[self][st.currentNodeIndex[self] + 1], id, out)
            EXCEPT !.hasMoreSteps = TRUE]
    ELSE LET st1 == BindBranch(st, id)
             branchState == st1.branchStates[id]
         IN IF branchState.completed
              THEN st1
              ELSE LET r == executeAgentStep(branchState.branch, st1, id, out)
                   IN [r.st EXCEPT !.hasMoreSteps = (@ \/ r.ret),
                                   !.branchStates[id].completed = r.ret]

\* (mutant) a branch node executed for an agent does not count as more work.
ConditionalAgentNoMore(self, st, id, out) ==
  IF st.currentNodeIndex[self] < Len(nodes[self])
    THEN [ExecNode(st, nodes[self][st.currentNodeIndex[self] + 1], id, out)
            EXCEPT !.hasMoreSteps = TRUE]
    ELSE LET st1 == BindBranch(st, id)
             branchState == st1.branchStates[id]
         IN IF branchState.completed
              THEN st1
              ELSE LET r == executeAgentStep(branchState.branch, st1, id, out)
                   IN [r.st EXCEPT !.branchStates[id].completed = ~r.ret]

\* MogiConditionalProcess.getActiveBranch(agentId)
getActiveBranch(bs, id) == IF id \in DOMAIN bs THEN bs[id].branch ELSE "null"

\* (mutant) the own cursor advances inside the loop, after each agent.
ConditionalAgentAdvances(self, st, id, out) ==
  IF st.currentNodeIndex[self] < Len(nodes[self])
    THEN [ExecNode(st, nodes[self][st.currentNodeIndex[self] + 1], id, out)
            EXCEPT !.hasMoreSteps = TRUE, !.currentNodeIndex[self] = @ + 1]
    ELSE LET st1 == BindBranch(st, id)
             branchState == st1.branchStates[id]
         IN IF branchState.completed
              THEN st1
              ELSE LET r == executeAgentStep(branchState.branch, st1, id, out)
                   IN [r.st EXCEPT !.hasMoreSteps = (@ \/ r.ret),
                                   !.branchStates[id].completed = ~r.ret]

\* One iteration of the loop of executeConditionalStep.
ConditionalAgent(self, st, id, out) ==
  IF st.currentNodeIndex[self] < Len(nodes[self])
    THEN [ExecNode(st, nodes[self][st.currentNodeIndex[self] + 1], id, out)
            EXCEPT !.hasMoreSteps = TRUE]
    ELSE LET st1 == BindBranch(st, id)
             branchState == st1.branchStates[id]
         IN IF branchState.completed
              THEN st1
              ELSE LET r == executeAgentStep(branchState.branch, st1, id, out)
                   IN [r.st EXCEPT !.hasMoreSteps = (@ \/ r.ret),
                                   !.branchStates[id].completed = ~r.ret]

RECURSIVE ConditionalLoop(_, _, _, _)
ConditionalLoop(self, st, ids, outs) ==
  IF ids = <<>>
    THEN st
    ELSE ConditionalLoop(self, ConditionalAgent(self, st, Head(ids), outs[Head(ids)]),
                         Tail(ids), outs)

\* MogiConditionalProcess.executeConditionalStep(agents).
executeConditionalStep(self, st, ids, outs) ==
  LET st1 == ConditionalLoop(self, st, ids, outs)
  IN IF st1.currentNodeIndex[self] < Len(nodes[self])
       THEN [st |-> [st1 EXCEPT !.currentNodeIndex[self] = @ + 1], ret |-> TRUE]
       ELSE [st |-> st1, ret |-> st1.hasMoreSteps]

\* -------------------------------------------------------- MogiSimulation

\* The executions Promise.all waits for in the linear step.
RECURSIVE ExecuteAll(_, _, _, _)
ExecuteAll(node, st, ids, outs) ==
  IF ids = <<>>
    THEN st
    ELSE ExecuteAll(node, ExecNode(st, node, Head(ids), outs[Head(ids)]), Tail(ids), outs)

Bool(b) == IF b THEN "true" ELSE "false"

\* (mutant) the run is marked complete one round early.
LinearAdvanceEarly(cs, nodeCount) ==
  LET next == cs.nodeIndex + 1
  IN [cs EXCEPT !.nodeIndex = next,
                !.isComplete = IF next >= nodeCount - 1 THEN TRUE ELSE @]

\* The linear branch of executeStep: the run state after the round.
LinearAdvance(cs, nodeCount) ==
  LET next == cs.nodeIndex + 1
  IN [cs EXCEPT !.nodeIndex = next,
                !.isComplete = IF next >= nodeCount THEN TRUE ELSE @]

\* this.processes.find((p) => p.id === id): process ids name the process objects.
find(procs, id) ==
  IF \E i \in 1..Len(procs) : procs[i] = id THEN id ELSE "undefined"

\* (mutant) executeStep without the early return on isComplete.
executeStepNoEarlyReturn(outs) ==
  LET cs == currentState
      p == cs.currentProcessId
  IN IF find(processes, p) = "undefined"
       THEN [cs |-> [cs EXCEPT !.isComplete = TRUE], st |-> Frame, ret |-> "false"]
     ELSE IF p = Flow
       THEN LET r == executeConditionalStep(p, Frame, cs.activeAgents, outs)
            IN [cs |-> cs, st |-> r.st, ret |-> Bool(r.ret)]
     ELSE IF cs.nodeIndex >= Len(nodes[p]) /\ cs.activeAgents # <<>>
       THEN [cs |-> cs, st |-> Frame, ret |-> "throws"]
     ELSE LET st1 == IF cs.activeAgents = <<>>
                       THEN Frame
                       ELSE ExecuteAll(nodes[p][cs.nodeIndex + 1], Frame,
                                       cs.activeAgents, outs)
              cs1 == LinearAdvance(cs, Len(nodes[p]))
          IN [cs |-> cs1, st |-> st1, ret |-> Bool(~cs1.isComplete)]

\* (mutant) executeStep steps every registered agent, not the active set.
executeStepAllAgents(outs) ==
  LET cs == currentState
      p == cs.currentProcessId
  IN IF cs.isComplete
       THEN [cs |-> cs, st |-> Frame, ret |-> "false"]
     ELSE IF find(processes, p) = "undefined"
       THEN [cs |-> [cs EXCEPT !.isComplete = TRUE], st |-> Frame, ret |-> "false"]
     ELSE IF p = Flow
       THEN LET r == executeConditionalStep(p, Frame, AgentKeys(agents), outs)
            IN [cs |-> cs, st |-> r.st, ret |-> Bool(r.ret)]
     ELSE IF cs.nodeIndex >= Len(nodes[p]) /\ AgentKeys(agents) # <<>>
       THEN \* currentNode is undefined: currentNode.execute raises a TypeError
            [cs |-> cs, st |-> Frame, ret |-> "throws"]
     ELSE LET st1 == IF AgentKeys(agents) = <<>>
                       THEN Frame
                       ELSE ExecuteAll(nodes[p][cs.nodeIndex + 1], Frame,
                                       AgentKeys(agents), outs)
              cs1 == LinearAdvance(cs, Len(nodes[p]))
          IN [cs |-> cs1, st |-> st1, ret |-> Bool(~cs1.isComplete)]

\* MogiSimulation.executeStep(): the run state, the execution and the result.
executeStep(outs) ==
  LET cs == currentState
      p == cs.currentProcessId
  IN IF cs.isComplete
       THEN [cs |-> cs, st |-> Frame, ret |-> "false"]
     ELSE IF find(processes, p) = "undefined"
       THEN [cs |-> [cs EXCEPT !.isComplete = TRUE], st |-> Frame, ret |-> "false"]
     ELSE IF p = Flow
       THEN LET r == executeConditionalStep(p, Frame, cs.activeAgents, outs)
            IN [cs |-> cs, st |-> r.st, ret |-> Bool(r.ret)]
     ELSE IF cs.nodeIndex >= Len(nodes[p]) /\ cs.activeAgents # <<>>
       THEN \* currentNode is undefined: currentNode.execute raises a TypeError
            [cs |-> cs, st |-> Frame, ret |-> "throws"]
     ELSE LET st1 == IF cs.activeAgents = <<>>
                       THEN Frame
                       ELSE ExecuteAll(nodes[p][cs.nodeIndex + 1], Frame,
                                       cs.activeAgents, outs)
              cs1 == LinearAdvance(cs, Len(nodes[p]))
          IN [cs |-> cs1, st |-> st1, ret |-> Bool(~cs1.isComplete)]

\* MogiSimulation.trackAIService over the services of a process.
RECURSIVE TrackAll(_, _)
TrackAll(tracked, services) ==
  IF services = <<>>
    THEN tracked
    ELSE TrackAll(IF Head(services) \in tracked THEN tracked
                  ELSE tracked \cup {Head(services)},
                  Tail(services))

\* Array.from(this.aiServices): the Set in some order.
RECURSIVE SetToSeq(_)
SetToSeq(S) == IF S = {} THEN <<>> ELSE LET x == CHOOSE y \in S : TRUE
                                        IN <<x>> \o SetToSeq(S \ {x})

AddStats(acc, stats) ==
  [totalCalls |-> acc.totalCalls + stats.totalCalls,
   totalInputTokens |-> acc.totalInputTokens + stats.totalInputTokens,
   totalOutputTokens |-> acc.totalOutputTokens + stats.totalOutputTokens,
   estimatedCost |-> acc.estimatedCost + stats.estimatedCost]

RECURSIVE Reduce(_, _, _)
Reduce(acc, services, usage) ==
  IF services = <<>>
    THEN acc
    ELSE Reduce(AddStats(acc, getUsageStats(usage, Head(services))), Tail(services), usage)

\* (mutant) the reduce accumulates into globalUsage itself, not into a copy.
getAIUsageInPlace(tracked, global, usage) ==
  LET total == Reduce(global, SetToSeq(tracked), usage)
  IN [ret |-> total, globalUsage |-> total]

\* MogiSimulation.getAIUsage(): what it returns and what it leaves in globalUsage.
getAIUsage(tracked, global, usage) ==
  [ret |-> Reduce(global, SetToSeq(tracked), usage), globalUsage |-> global]

\* MogiSimulation.resetAIUsage(): every tracked capability and the aggregate.
RECURSIVE ResetAll(_, _)
ResetAll(usage, services) ==
  IF services = <<>>
    THEN usage
    ELSE ResetAll(resetUsageStats(usage, Head(services)), Tail(services))

resetAIUsage(tracked, usage) ==
  [usageStats |-> ResetAll(usage, SetToSeq(tracked)), globalUsage |-> ZeroUsage]

\* --------------------------------------------------------------- actions

\* A call: the object it is made on, the method, what it returned, the capability
\* calls and the predicate evaluations made during it and, for getAIUsage, the
\* statistics returned.
Simulation == "simulation"
NoCall ==
  [target |-> Simulation, op |-> "new", ret |-> "void", calls |-> <<>>, evals |-> <<>>,
   usage |-> ZeroUsage]
CallOn(target, op, ret, calls) ==
  [target |-> target, op |-> op, ret |-> ret, calls |-> calls, evals |-> <<>>,
   usage |-> ZeroUsage]
Call(op, ret, calls) == CallOn(Simulation, op, ret, calls)

\* No executeStep call is in progress.
NoStep == [awaiting |-> FALSE, executions |-> {}, done |-> <<>>]

\* The shapes the process objects are built with (addNode before any run).
BuildNodes(count) == [p \in Procs |-> [i \in 1..count[p] |-> MkNode(p, i)]]

Shapes ==
  {count \in [Procs -> 0..(MaxPrefix + MaxTrue + MaxFalse)] :
     /\ count[Flow] <= MaxPrefix
     /\ count[trueBranch] <= MaxTrue
     /\ count[falseBranch] <= MaxFalse}

Init ==
  /\ agents = <<>>
  /\ currentState = [currentProcessId |-> "null", activeAgents |-> <<>>,
                     nodeIndex |-> 0, isComplete |-> TRUE]
  /\ executionQueue = <<>>
  /\ processes = <<>>
  /\ aiServices = {}
  /\ globalUsage = ZeroUsage
  /\ usageStats = [s \in Services |-> ZeroUsage]
  /\ \E count \in Shapes : nodes = BuildNodes(count)
  /\ currentNodeIndex = [p \in Procs |-> 0]
  /\ branchStates = <<>>
  /\ pending = NoStep
  /\ overlap = NoStep
  /\ lastCall = NoCall

\* addAgent(initialState, id)
addAgent(ags, id, attributes) ==
  LET fresh == [id |-> id, attributes |-> attributes, history |-> <<>>]
  IN IF HasAgent(ags, id)
       THEN [ags EXCEPT ![AgentIndex(ags, id)] = fresh]
       ELSE Append(ags, fresh)

AddAgent ==
  \E id \in AgentIds, h \in Heights :
    /\ Len(agents) < Len(AgentNames)
    /\ id = AgentNames[Len(agents) + 1]
    /\ agents' = addAgent(agents, id, [k \in {"height"} |-> h])
    /\ lastCall' = Call("addAgent", id, <<>>)
    /\ UNCHANGED <<currentState, executionQueue, processes, aiServices, globalUsage,
                   usageStats, nodes, currentNodeIndex, branchStates, pending, overlap>>

\* (mutant) the run cursor of the previous run is kept.
initializeProcessKeepsCursor(p, ags) ==
  [currentProcessId |-> p, activeAgents |-> AgentKeys(ags),
   nodeIndex |-> currentState.nodeIndex, isComplete |-> FALSE]

\* initializeProcess(process): the run state it builds.
initializeProcess(p, ags) ==
  [currentProcessId |-> p, activeAgents |-> AgentKeys(ags),
   nodeIndex |-> 0, isComplete |-> FALSE]

InitializeProcess(p) ==
  /\ Len(processes) < MaxRuns
  /\ currentState' = initializeProcess(p, agents)
  /\ executionQueue' = [i \in 1..Len(agents) |->
                          [processId |-> p, agentId |-> agents[i].id, nodeIndex |-> 0]]
  /\ aiServices' = TrackAll(aiServices, getAIServices(p))
  /\ processes' = Append(processes, p)
  /\ lastCall' = Call("initializeProcess", "void", <<>>)
  /\ UNCHANGED <<agents, globalUsage, usageStats, nodes, currentNodeIndex, branchStates,
                 pending, overlap>>

ExecuteStepWith(Outs) ==
  /\ \E outs \in [AgentIds -> Outs] :
       LET r == executeStep(outs)
       IN /\ currentState' = r.cs
          /\ agents' = r.st.agents
          /\ usageStats' = r.st.usageStats
          /\ currentNodeIndex' = r.st.currentNodeIndex
          /\ branchStates' = r.st.branchStates
          /\ lastCall' = [Call("executeStep", r.ret, r.st.calls) EXCEPT !.evals = r.st.evals]
  /\ UNCHANGED <<executionQueue, processes, aiServices, globalUsage, nodes, pending, overlap>>

\* A step whose capability calls answer well or fail.
ExecuteStep == ExecuteStepWith({Answer, Throw})

\* process.resetExecution() on any of the process objects.
ResetExecution(p) ==
  LET st == resetExecution(p, Frame)
  IN /\ currentNodeIndex' = st.currentNodeIndex
     /\ branchStates' = st.branchStates
     /\ lastCall' = CallOn(p, "resetExecution", "void", <<>>)
     /\ UNCHANGED <<agents, currentState, executionQueue, processes, aiServices,
                    globalUsage, usageStats, nodes, pending, overlap>>

\* process.executeAgentStep(agent) called on a process object directly.
ExecuteAgentStep(p, id) ==
  /\ HasAgent(agents, id)
  /\ \E out \in {Answer, Throw} :
       LET r == executeAgentStep(p, Frame, id, out)
       IN /\ agents' = r.st.agents
          /\ usageStats' = r.st.usageStats
          /\ currentNodeIndex' = r.st.currentNodeIndex
          /\ lastCall' = CallOn(p, "executeAgentStep", Bool(r.ret), r.st.calls)
  /\ UNCHANGED <<currentState, executionQueue, processes, aiServices, globalUsage,
                 nodes, branchStates, pending, overlap>>

GetAIUsage ==
  LET r == getAIUsage(aiServices, globalUsage, usageStats)
  IN /\ globalUsage' = r.globalUsage
     /\ lastCall' = [Call("getAIUsage", "void", <<>>) EXCEPT !.usage = r.ret]
     /\ UNCHANGED <<agents, currentState, executionQueue, processes, aiServices,
                    usageStats, nodes, currentNodeIndex, branchStates, pending, overlap>>

ResetAIUsage ==
  LET r == resetAIUsage(aiServices, usageStats)
  IN /\ usageStats' = r.usageStats
     /\ globalUsage' = r.globalUsage
     /\ lastCall' = Call("resetAIUsage", "void", <<>>)
     /\ UNCHANGED <<agents, currentState, executionQueue, processes, aiServices,
                    nodes, currentNodeIndex, branchStates, pending, overlap>>

Next ==
  \/ AddAgent
  \/ \E p \in Procs : InitializeProcess(p)
  \/ ExecuteStep

Spec == Init /\ [][Next]_vars

\* ------------------------------------------------- one run, no failures

\* The caller registers the agents, initializes one process and steps it; every
\* capability call answers (with a well-formed or a malformed reply).
Register == processes = <<>> /\ AddAgent
Start == processes = <<>> /\ \E p \in Procs : InitializeProcess(p)
RunStep == processes # <<>> /\ ExecuteStepWith(ReplyTexts)

NextRun == Register \/ Start \/ RunStep

SpecRun == Init /\ [][NextRun]_vars

\* --------------------------------------------------------- runProcess

\* runProcess(process): initializeProcess, then executeStep while it returns
\* true; the loop ends when a call returns false (runProcess resolves) or raises
\* (runProcess rejects). Every capability call answers or fails, so every
\* executeStep of the loop comes to its end and the loop goes on.
Looping ==
  /\ processes # <<>>
  /\ ~(lastCall.op = "executeStep" /\ lastCall.ret \in {"false", "throws"})

LoopStep == Looping /\ ExecuteStepWith(Outcomes)

NextRunProcess == Register \/ Start \/ LoopStep

SpecRunProcess == Init /\ [][NextRunProcess]_vars /\ WF_vars(LoopStep)

\* ------------------------------------------------- runProcess, as one call

\* The longest loop of runProcess: one call for every node of the process and
\* its branches, and the call that returns false.
MaxLoop == MaxPrefix + MaxTrue + MaxFalse + 1

\* executeStep() on the run state and the execution the loop of runProcess has
\* reached (procs: this.processes).
executeStepOn(cs, procs, st, outs) ==
  LET p == cs.currentProcessId
  IN IF cs.isComplete
       THEN [cs |-> cs, st |-> st, ret |-> "false"]
     ELSE IF find(procs, p) = "undefined"
       THEN [cs |-> [cs EXCEPT !.isComplete = TRUE], st |-> st, ret |-> "false"]
     ELSE IF p = Flow
       THEN LET r == executeConditionalStep(p, [st EXCEPT !.hasMoreSteps = FALSE],
                                            cs.activeAgents, outs)
            IN [cs |-> cs, st |-> r.st, ret |-> Bool(r.ret)]
     ELSE IF cs.nodeIndex >= Len(nodes[p]) /\ cs.activeAgents # <<>>
       THEN [cs |-> cs, st |-> st, ret |-> "throws"]
     ELSE LET st1 == IF cs.activeAgents = <<>>
                       THEN st
                       ELSE ExecuteAll(nodes[p][cs.nodeIndex + 1], st,
                                       cs.activeAgents, outs)
              cs1 == LinearAdvance(cs, Len(nodes[p]))
          IN [cs |-> cs1, st |-> st1, ret |-> Bool(~cs1.isComplete)]

\* while (await this.executeStep()) {...}: the state when the loop ends, by a
\* call that returns false or one that raises.
RECURSIVE Loop(_, _, _, _, _)
Loop(cs, procs, st, outs, fuel) ==
  LET r == executeStepOn(cs, procs, st, outs)
  IN IF r.ret = "true" /\ fuel > 1
       THEN Loop(r.cs, procs, r.st, outs, fuel - 1)
       ELSE r

\* (mutant) runProcess resets the process object before it starts the run.
runProcessResets(p, outs) ==
  Loop(initializeProcess(p, agents), Append(processes, p),
       resetExecution(p, Frame), outs, MaxLoop)

\* runProcess(process): initializeProcess, then the loop.
runProcess(p, outs) ==
  Loop(initializeProcess(p, agents), Append(processes, p), Frame, outs, MaxLoop)

\* simulation.runProcess(process), with capability calls that all answer (each
\* agent is answered the same way throughout the run).
RunProcess(p) ==
  /\ Len(processes) < MaxRuns
  /\ \E outs \in [AgentIds -> ReplyTexts] :
       LET r == runProcess(p, outs)
       IN /\ currentState' = r.cs
          /\ agents' = r.st.agents
          /\ usageStats' = r.st.usageStats
          /\ currentNodeIndex' = r.st.currentNodeIndex
          /\ branchStates' = r.st.branchStates
          /\ lastCall' = [Call("runProcess",
                               IF r.ret = "false" THEN "void" ELSE r.ret,
                               r.st.calls)
                            EXCEPT !.evals = r.st.evals]
  /\ executionQueue' = [i \in 1..Len(agents) |->
                          [processId |-> p, agentId |-> agents[i].id, nodeIndex |-> 0]]
  /\ aiServices' = TrackAll(aiServices, getAIServices(p))
  /\ processes' = Append(processes, p)
  /\ UNCHANGED <<globalUsage, nodes, pending, overlap>>

\* Agents are registered, then processes are run to completion one after another.
RunToCompletion == \E p \in Procs : RunProcess(p)

NextRerun == Register \/ RunToCompletion

SpecRerun == Init /\ [][NextRerun]_vars

\* ------------------------------------- one run, a longer shared branch

\* The same caller, with a true branch of MaxShared nodes for the agents the
\* predicate sends there.
SharedShapes ==
  {count \in [Procs -> 0..MaxShared] :
     /\ count[Flow] <= MaxPrefix
     /\ count[trueBranch] = MaxShared
     /\ count[falseBranch] <= MaxFalse}

InitShared ==
  /\ agents = <<>>
  /\ currentState = [currentProcessId |-> "null", activeAgents |-> <<>>,
                     nodeIndex |-> 0, isComplete |-> TRUE]
  /\ executionQueue = <<>>
  /\ processes = <<>>
  /\ aiServices = {}
  /\ globalUsage = ZeroUsage
  /\ usageStats = [s \in Services |-> ZeroUsage]
  /\ \E count \in SharedShapes : nodes = BuildNodes(count)
  /\ currentNodeIndex = [p \in Procs |-> 0]
  /\ branchStates = <<>>
  /\ pending = NoStep
  /\ overlap = NoStep
  /\ lastCall = NoCall

SpecShared == InitShared /\ [][NextRun]_vars

\* ------------------------------------------------- runs with resets

\* The caller registers the agents, then initializes processes, steps them and
\* resets process objects in any order.
HistoriesBelow(n) ==
  \A i \in 1..Len(currentState.activeAgents) :
    Len(getAgentState(agents, currentState.activeAgents[i]).history) < n

BoundedStep == HistoriesBelow(MaxHist) /\ ExecuteStep

NextReset ==
  \/ Register
  \/ \E p \in Procs : InitializeProcess(p)
  \/ BoundedStep
  \/ \E p \in Procs : ResetExecution(p)

SpecReset == Init /\ [][NextReset]_vars

\* ------------------------------------------- process objects on their own

\* The caller registers agents and drives the process objects directly:
\* executeAgentStep on a linear process, executeConditionalStep on the conditional
\* process with every registered agent, resetExecution on any of them.
BoundedAgentStep ==
  \E p \in Linear, id \in AgentIds :
    /\ HasAgent(agents, id)
    /\ Len(getAgentState(agents, id).history) < MaxHist
    /\ ExecuteAgentStep(p, id)

ExecuteConditionalStep ==
  /\ \A i \in 1..Len(agents) : Len(agents[i].history) < MaxHist
  /\ \E outs \in [AgentIds -> {Answer, Throw}] :
       LET r == executeConditionalStep(Flow, Frame, AgentKeys(agents), outs)
       IN /\ agents' = r.st.agents
          /\ usageStats' = r.st.usageStats
          /\ currentNodeIndex' = r.st.currentNodeIndex
          /\ branchStates' = r.st.branchStates
          /\ lastCall' = [CallOn(Flow, "executeConditionalStep", Bool(r.ret), r.st.calls)
                            EXCEPT !.evals = r.st.evals]
  /\ UNCHANGED <<currentState, executionQueue, processes, aiServices, globalUsage, nodes,
                 pending, overlap>>

NextProcess ==
  \/ AddAgent
  \/ BoundedAgentStep
  \/ ExecuteConditionalStep
  \/ \E p \in Procs : ResetExecution(p)

SpecProcess == Init /\ [][NextProcess]_vars

\* ------------------------------------- the linear step, call by call

\* executeStep on a linear process in its parts: it takes the node at nodeIndex,
\* starts node.execute for every active agent (each issues its capability call at
\* once), awaits Promise.all of them, then advances the run cursor and returns.
\* The capability calls answer or fail one at a time, in any order. The caller
\* awaits each call before making the next.
\* (mutant) the call does not return early when the run is complete.
ReachesPromiseAllWhenComplete ==
  LET p == currentState.currentProcessId
  IN /\ find(processes, p) # "undefined"
     /\ p \in Linear
     /\ currentState.nodeIndex < Len(nodes[p]) \/ currentState.activeAgents = <<>>

ReachesPromiseAll ==
  LET p == currentState.currentProcessId
  IN /\ ~currentState.isComplete
     /\ find(processes, p) # "undefined"
     /\ p \in Linear
     /\ currentState.nodeIndex < Len(nodes[p]) \/ currentState.activeAgents = <<>>

Dispatch ==
  /\ ~pending.awaiting
  /\ ReachesPromiseAll
  /\ LET p == currentState.currentProcessId
     IN pending' = [pending EXCEPT
                      !.awaiting = TRUE,
                      !.executions = @ \cup
                         {[agentId |-> currentState.activeAgents[i],
                           node |-> nodes[p][currentState.nodeIndex + 1]] :
                            i \in 1..Len(currentState.activeAgents)},
                      !.done = <<>>]
  /\ UNCHANGED <<agents, currentState, executionQueue, processes, aiServices, globalUsage,
                 usageStats, nodes, currentNodeIndex, branchStates, lastCall, overlap>>

\* One capability call answers or fails and its node.execute runs to its end.
Settle ==
  \E e \in pending.executions, out \in {Answer, Throw} :
    LET st == ExecNode(Frame, e.node, e.agentId, out)
    IN /\ agents' = st.agents
       /\ usageStats' = st.usageStats
       /\ pending' = [pending EXCEPT !.executions = @ \ {e},
                                     !.done = Append(@, st.calls[1])]
       /\ UNCHANGED <<currentState, executionQueue, processes, aiServices, globalUsage,
                      nodes, currentNodeIndex, branchStates, lastCall, overlap>>

\* (mutant) the step goes on as soon as one execution has completed.
AnySettled(step) == step.done # <<>> \/ step.executions = {}

\* await Promise.all(...): every execution the step started has completed.
AllSettled(step) == step.executions = {}

Join ==
  /\ pending.awaiting
  /\ AllSettled(pending)
  /\ LET cs1 == LinearAdvance(currentState, Len(nodes[currentState.currentProcessId]))
     IN /\ currentState' = cs1
        /\ lastCall' = Call("executeStep", Bool(~cs1.isComplete), pending.done)
  /\ pending' = [pending EXCEPT !.awaiting = FALSE, !.done = <<>>]
  /\ UNCHANGED <<agents, executionQueue, processes, aiServices, globalUsage, usageStats,
                 nodes, currentNodeIndex, branchStates, overlap>>

\* The calls of executeStep that do not get to Promise.all.
StepAtOnce == ~pending.awaiting /\ ~ReachesPromiseAll /\ ExecuteStep

StartLinear == ~pending.awaiting /\ \E p \in Linear : InitializeProcess(p)

NextAsync ==
  \/ Register
  \/ StartLinear
  \/ Dispatch
  \/ Settle
  \/ Join
  \/ StepAtOnce

SpecAsync == Init /\ [][NextAsync]_vars

\* ------------------------------------ executeStep calls that overlap

\* One linear run, with capability calls that all answer.
StartOne == processes = <<>> /\ \E p \in Linear : InitializeProcess(p)

\* executeStep() invoked while the call before it awaits Promise.all: it reads
\* the same run state and starts its own executions of the node at the cursor.
DispatchOverlapping ==
  /\ pending.awaiting
  /\ ~overlap.awaiting
  /\ ReachesPromiseAll
  /\ LET p == currentState.currentProcessId
     IN overlap' = [overlap EXCEPT
                      !.awaiting = TRUE,
                      !.executions = @ \cup
                         {[agentId |-> currentState.activeAgents[i],
                           node |-> nodes[p][currentState.nodeIndex + 1]] :
                            i \in 1..Len(currentState.activeAgents)},
                      !.done = <<>>]
  /\ UNCHANGED <<agents, currentState, executionQueue, processes, aiServices, globalUsage,
                 usageStats, nodes, currentNodeIndex, branchStates, pending, lastCall>>

\* The capability call of one execution answers and its node.execute runs to
\* its end.
Answered ==
  \E e \in pending.executions :
    LET st == ExecNode(Frame, e.node, e.agentId, Answer)
    IN /\ agents' = st.agents
       /\ usageStats' = st.usageStats
       /\ pending' = [pending EXCEPT !.executions = @ \ {e},
                                     !.done = Append(@, st.calls[1])]
       /\ UNCHANGED <<currentState, executionQueue, processes, aiServices, globalUsage,
                      nodes, currentNodeIndex, branchStates, overlap, lastCall>>

AnsweredOverlapping ==
  \E e \in overlap.executions :
    LET st == ExecNode(Frame, e.node, e.agentId, Answer)
    IN /\ agents' = st.agents
       /\ usageStats' = st.usageStats
       /\ overlap' = [overlap EXCEPT !.executions = @ \ {e},
                                     !.done = Append(@, st.calls[1])]
       /\ UNCHANGED <<currentState, executionQueue, processes, aiServices, globalUsage,
                      nodes, currentNodeIndex, branchStates, pending, lastCall>>

\* The overlapping call gets past its own Promise.all and advances the cursor.
JoinOverlapping ==
  /\ overlap.awaiting
  /\ AllSettled(overlap)
  /\ LET cs1 == LinearAdvance(currentState, Len(nodes[currentState.currentProcessId]))
     IN /\ currentState' = cs1
        /\ lastCall' = Call("executeStep", Bool(~cs1.isComplete), overlap.done)
  /\ overlap' = [overlap EXCEPT !.awaiting = FALSE, !.done = <<>>]
  /\ UNCHANGED <<agents, executionQueue, processes, aiServices, globalUsage, usageStats,
                 nodes, currentNodeIndex, branchStates, pending>>

\* The calls that return or raise before Promise.all, overlapping or not.
ReturnsAtOnce ==
  /\ ~(pending.awaiting /\ overlap.awaiting)
  /\ processes # <<>>
  /\ ~ReachesPromiseAll
  /\ ExecuteStepWith({Answer})

NextOverlap ==
  \/ Register
  \/ StartOne
  \/ Dispatch
  \/ DispatchOverlapping
  \/ Answered
  \/ AnsweredOverlapping
  \/ Join
  \/ JoinOverlapping
  \/ ReturnsAtOnce

SpecOverlap == Init /\ [][NextOverlap]_vars

\* ------------------------------------------- registering an agent again

\* addAgent called with an identifier that is already registered.
AddAgentAgain ==
  \E i \in 1..Len(agents), h \in Heights :
    /\ agents' = addAgent(agents, agents[i].id, [k \in {"height"} |-> h])
    /\ lastCall' = Call("addAgent", agents[i].id, <<>>)
    /\ UNCHANGED <<currentState, executionQueue, processes, aiServices, globalUsage,
                   usageStats, nodes, currentNodeIndex, branchStates, pending, overlap>>

NextRegister ==
  \/ AddAgent
  \/ AddAgentAgain
  \/ \E p \in Procs : InitializeProcess(p)
  \/ ExecuteStep

SpecRegister == Init /\ [][NextRegister]_vars

\* ------------------------------------------------------ usage counters

NextUsage ==
  \/ Register
  \/ \E p \in Procs : InitializeProcess(p)
  \/ ExecuteStep
  \/ GetAIUsage
  \/ ResetAIUsage

SpecUsage == Init /\ [][NextUsage]_vars

\* ---------------------------------------------------------------- claims

History(id) == getAgentState(agents, id).history
NodeIds(history) == [i \in 1..Len(history) |-> history[i].nodeId]
ProcessNodeIds(p, n) == [i \in 1..n |-> nodes[p][i].id]
Active == {currentState.activeAgents[i] : i \in 1..Len(currentState.activeAgents)}
Returned(op, ret) == lastCall.op = op /\ lastCall.ret = ret

\* C1: in a run of a linear process with N >= 1 nodes and M >= 1 agents whose
\* capability calls all answer, every agent's history is the nodes executed so far
\* in node order, the run is complete exactly when nodeIndex has reached N, and
\* once executeStep has returned false every agent's history has exactly N entries.
C1_LinearRun ==
  LET p == currentState.currentProcessId
  IN (p \in Linear /\ Len(nodes[p]) >= 1 /\ Active # {}) =>
       /\ currentState.nodeIndex <= Len(nodes[p])
       /\ currentState.isComplete <=> currentState.nodeIndex = Len(nodes[p])
       /\ \A id \in Active :
            NodeIds(History(id)) = ProcessNodeIds(p, currentState.nodeIndex)
       /\ Returned("executeStep", "false") =>
            \A id \in Active : Len(History(id)) = Len(nodes[p])

C1_Witness ==
  /\ currentState.currentProcessId = trueBranch
  /\ Len(nodes[trueBranch]) = 2
  /\ Cardinality(Active) = 2
  /\ Returned("executeStep", "false")
  /\ \A id \in Active : Len(History(id)) = 2

\* C2: in a run of the conditional process whose capability calls all answer and
\* in which no two agents are bound to the same branch, once executeStep has
\* returned false every agent is bound and has P + K history entries, P the
\* number of prefix nodes and K the number of nodes of its bound branch.
OneAgentPerBranch ==
  \A a, b \in Active \cap DOMAIN branchStates :
    a # b => getActiveBranch(branchStates, a) # getActiveBranch(branchStates, b)

C2_ConditionalRun ==
  (/\ currentState.currentProcessId = Flow
   /\ Returned("executeStep", "false")
   /\ OneAgentPerBranch) =>
    \A id \in Active :
      /\ id \in DOMAIN branchStates
      /\ Len(History(id)) =
           Len(nodes[Flow]) + Len(nodes[getActiveBranch(branchStates, id)])

\* The scenario of the specification: one prefix node, two true-branch nodes, one
\* false-branch node, Jake bound to the false branch and John to the true branch.
C2_Witness ==
  /\ currentState.currentProcessId = Flow
  /\ Returned("executeStep", "false")
  /\ Len(nodes[Flow]) = 1 /\ Len(nodes[trueBranch]) = 2 /\ Len(nodes[falseBranch]) = 1
  /\ Active = {"Jake", "John"}
  /\ getActiveBranch(branchStates, "Jake") = falseBranch
  /\ getActiveBranch(branchStates, "John") = trueBranch
  /\ Len(History("Jake")) = 2
  /\ Len(History("John")) = 3

\* C3: once an agent has a branch binding, getActiveBranch for it gives the same
\* branch after every call other than resetExecution, whatever the predicate
\* gives on the agent's attributes by then.
C3_StickyBranch ==
  [][\A id \in DOMAIN branchStates :
       lastCall'.op # "resetExecution" =>
         getActiveBranch(branchStates', id) = getActiveBranch(branchStates, id)]_vars

\* John, bound to the true branch, has had his height changed by a branch node so
\* that the predicate is now false.
C3_Witness ==
  /\ HasAgent(agents, "John")
  /\ getActiveBranch(branchStates, "John") = trueBranch
  /\ ~condition(getAgentState(agents, "John"))
  /\ Len(History("John")) > Len(nodes[Flow])
  /\ lastCall.op = "executeStep"

\* C4: in every executeStep, an agent whose capability call fails keeps its
\* attributes and history, an agent whose call answers gets exactly one more
\* history entry, and the step returns what it would return from the same state
\* had every call answered.
C4_FailureIsLocal ==
  [][lastCall'.op = "executeStep" =>
       /\ \A i \in 1..Len(lastCall'.calls) :
            LET c == lastCall'.calls[i]
                before == getAgentState(agents, c.agentId)
                after == getAgentState(agents', c.agentId)
            IN IF c.out = Throw
                 THEN after = before
                 ELSE Len(after.history) = Len(before.history) + 1
       /\ lastCall'.ret = executeStep([id \in AgentIds |-> Answer]).ret]_vars

\* A step in which Jake's call failed and John's answered, and work remains.
C4_Witness ==
  /\ Returned("executeStep", "true")
  /\ \E i, j \in 1..Len(lastCall.calls) :
       /\ lastCall.calls[i].agentId = "Jake" /\ lastCall.calls[i].out = Throw
       /\ lastCall.calls[j].agentId = "John" /\ lastCall.calls[j].out # Throw
  /\ Len(History("Jake")) = 0
  /\ Len(History("John")) = 1

\* C5: getAIUsage() is the field-wise sum of the counters of the capability
\* instances of the processes initialized so far, each instance counted once, and
\* right after resetAIUsage() it is zero in every field.
Initialized ==
  {q \in Procs : \E k \in 1..Len(processes) :
                   q = processes[k] \/ (processes[k] = Flow /\ q \in {trueBranch, falseBranch})}

Registered == UNION {{nodes[q][i].aiService : i \in 1..Len(nodes[q])} : q \in Initialized}

RECURSIVE SumOf(_, _)
SumOf(S, field) ==
  IF S = {} THEN 0
  ELSE LET s == CHOOSE x \in S : TRUE IN usageStats[s][field] + SumOf(S \ {s}, field)

ExpectedUsage == [field \in DOMAIN ZeroUsage |-> SumOf(Registered, field)]

C5_UsageIsSum ==
  /\ getAIUsage(aiServices, globalUsage, usageStats).ret = ExpectedUsage
  /\ lastCall.op = "getAIUsage" => lastCall.usage = ExpectedUsage
  /\ lastCall.op = "resetAIUsage" =>
       getAIUsage(aiServices, globalUsage, usageStats).ret = ZeroUsage

\* Both capabilities are registered and have answered calls, the shared one for
\* more than one node, and getAIUsage has just returned their sum.
C5_Witness ==
  /\ lastCall.op = "getAIUsage"
  /\ aiServices = Services
  /\ usageStats["gemini"].totalCalls >= 2
  /\ usageStats["other"].totalCalls >= 1
  /\ lastCall.usage.totalCalls =
       usageStats["gemini"].totalCalls + usageStats["other"].totalCalls

\* C6: resetExecution on any process object, in any state, leaves its own cursor
\* at 0 and, for the conditional process, no agent bound and both branch cursors
\* at 0; a second resetExecution changes nothing more; and each step moves the
\* own cursor by a rule that reads the own cursor and the node count only, so the
\* cursor values after a reset are those of a freshly built process (0, 1, ...,
\* node count, then constant).
IsReset(p, st) ==
  /\ st.currentNodeIndex[p] = 0
  /\ p = Flow => /\ st.branchStates = <<>>
                 /\ st.currentNodeIndex[trueBranch] = 0
                 /\ st.currentNodeIndex[falseBranch] = 0

NextCursor(p, cursor) == IF cursor < Len(nodes[p]) THEN cursor + 1 ELSE cursor

C6_ResetState ==
  /\ \A p \in Procs :
       LET st == resetExecution(p, Frame)
       IN IsReset(p, st) /\ resetExecution(p, st) = st
  /\ lastCall.op = "resetExecution" => IsReset(lastCall.target, Frame)

C6_StepRule ==
  /\ lastCall'.op = "executeConditionalStep" =>
       currentNodeIndex'[Flow] = NextCursor(Flow, currentNodeIndex[Flow])
  /\ lastCall'.op = "executeAgentStep" =>
       \E p \in Linear :
         currentNodeIndex' =
           [currentNodeIndex EXCEPT ![p] = NextCursor(p, currentNodeIndex[p])]

C6_ResetRestores == []C6_ResetState /\ [][C6_StepRule]_vars

\* The conditional process is reset after John went through its prefix node and
\* a node of the true branch.
C6_Witness ==
  /\ lastCall.op = "resetExecution" /\ lastCall.target = Flow
  /\ HasAgent(agents, "John")
  /\ Len(nodes[Flow]) = 1 /\ Len(nodes[trueBranch]) >= 1
  /\ NodeIds(History("John")) = <<nodes[Flow][1].id, nodes[trueBranch][1].id>>
  /\ IsReset(Flow, Frame)

\* C7: executeStep called when no process has been initialized, or right after an
\* executeStep that returned false, returns false, makes no capability call and
\* leaves the agents, the process cursors and the branch bindings as they were.
C7_NoOpStep ==
  [][(/\ lastCall'.op = "executeStep"
      /\ \/ currentState.currentProcessId = "null"
         \/ Returned("executeStep", "false")) =>
       /\ lastCall'.ret = "false"
       /\ lastCall'.calls = <<>>
       /\ UNCHANGED <<agents, currentNodeIndex, branchStates, usageStats>>]_vars

\* executeStep has been repeated on a finished run of the two-node linear process:
\* the call that returned false made no capability call.
C7_Witness ==
  /\ Returned("executeStep", "false")
  /\ lastCall.calls = <<>>
  /\ currentState.currentProcessId = trueBranch
  /\ Len(nodes[trueBranch]) = 2
  /\ currentState.nodeIndex = 2
  /\ Active # {}

\* C8: initializeProcess(process), from any state, leaves the run state with
\* currentProcessId = process.id, activeAgents = the ids of exactly the agents
\* registered at the call, nodeIndex = 0 and isComplete = false, and changes no
\* agent's attributes or history.
C8_InitializeProcess ==
  [][lastCall'.op = "initializeProcess" =>
       /\ currentState'.currentProcessId = processes'[Len(processes')]
       /\ Len(currentState'.activeAgents) = Len(agents)
       /\ {currentState'.activeAgents[i] : i \in 1..Len(agents)} =
            {agents[i].id : i \in 1..Len(agents)}
       /\ currentState'.nodeIndex = 0
       /\ currentState'.isComplete = FALSE
       /\ agents' = agents]_vars

\* A second initializeProcess, after a run that executed nodes for Jake and
\* during which John was registered.
C8_Witness ==
  /\ lastCall.op = "initializeProcess"
  /\ Len(processes) = 2
  /\ currentState.activeAgents = <<"Jake", "John">>
  /\ Len(History("Jake")) = 2
  /\ Len(History("John")) = 0
  /\ currentState.nodeIndex = 0

\* C9: executeAgentStep returns true exactly when, after the call, the cursor of
\* the process is still below its node count.
C9_ReturnsMoreSteps ==
  lastCall.op = "executeAgentStep" =>
    (lastCall.ret = "true" <=>
       currentNodeIndex[lastCall.target] < Len(nodes[lastCall.target]))

\* C10: in a run with at least one active agent, executeStep returns true exactly
\* when a node execution remains: the executeStep after one that returned true
\* executes at least one node, and the one after false executes none.
C10_TrueMeansWorkRemains ==
  [][(/\ lastCall.op = "executeStep"
      /\ lastCall'.op = "executeStep"
      /\ Active # {}) =>
       /\ lastCall.ret = "true" => lastCall'.calls # <<>>
       /\ lastCall.ret = "false" => lastCall'.calls = <<>>]_vars

\* C11: in a run of the conditional process whose capability calls all answer,
\* once executeStep has returned false every agent is bound and has executed
\* exactly K nodes of its bound branch, K the node count of that branch, however
\* many agents are bound to the same branch.
BranchEntries(id, branch) ==
  Cardinality({i \in 1..Len(History(id)) : History(id)[i].nodeId[1] = branch})

C11_IndependentProgress ==
  (/\ currentState.currentProcessId = Flow
   /\ Returned("executeStep", "false")) =>
    \A id \in Active :
      /\ id \in DOMAIN branchStates
      /\ BranchEntries(id, getActiveBranch(branchStates, id)) =
           Len(nodes[getActiveBranch(branchStates, id)])

\* C12: in a run of the conditional process whose capability calls all answer,
\* the node ids of every agent's history are at every point the prefix nodes in
\* order followed by the first nodes of its bound branch in order.
C12_BranchInOrder ==
  currentState.currentProcessId = Flow =>
    \A id \in Active :
      LET h == NodeIds(History(id))
          P == Len(nodes[Flow])
      IN IF Len(h) <= P
           THEN h = ProcessNodeIds(Flow, Len(h))
           ELSE /\ id \in DOMAIN branchStates
                /\ Len(h) - P <= Len(nodes[getActiveBranch(branchStates, id)])
                /\ h = ProcessNodeIds(Flow, P) \o
                         ProcessNodeIds(getActiveBranch(branchStates, id), Len(h) - P)

\* C13: in a linear process stepped by sequential executeStep calls, whatever the
\* order in which the executions of a step complete, every execution in progress
\* is of the node at the run cursor (none of node k+1 has begun while one of node
\* k has not completed), and when executeStep has returned no execution it
\* started is still in progress and every active agent's execution has completed.
C13_RoundsDoNotOverlap ==
  LET p == currentState.currentProcessId
  IN /\ \A e \in pending.executions :
          /\ p \in Linear
          /\ currentState.nodeIndex < Len(nodes[p])
          /\ e.node = nodes[p][currentState.nodeIndex + 1]
     /\ ~pending.awaiting => pending.executions = {}
     /\ (~pending.awaiting /\ lastCall.op = "executeStep" /\ lastCall.calls # <<>>) =>
          {lastCall.calls[i].agentId : i \in 1..Len(lastCall.calls)} = Active

\* In the second round of the two-node process John's execution has completed
\* and Jake's, dispatched first, has not.
C13_Witness ==
  /\ pending.awaiting
  /\ currentState.currentProcessId = trueBranch
  /\ currentState.nodeIndex = 1
  /\ pending.executions = {[agentId |-> "Jake", node |-> nodes[trueBranch][2]]}
  /\ Len(pending.done) = 1 /\ pending.done[1].agentId = "John"

C15_CompletionFlag ==
  (lastCall.op = "executeStep" /\ lastCall.ret \in {"true", "false"}) =>
    (currentState.isComplete <=> lastCall.ret = "false")

\* C16: between executeStep calls of a run whose capability calls all answer,
\* the run state's nodeIndex is the number of shared node rounds the current
\* process has completed in the run (the entries of its own nodes in every
\* active agent's history) and equals the own currentNodeIndex of the process.
C16_CursorMirror ==
  LET p == currentState.currentProcessId
  IN (p \in Procs /\ lastCall.op \in {"initializeProcess", "executeStep"}
               /\ lastCall.ret # "throws") =>
       /\ \A id \in Active : BranchEntries(id, p) = currentState.nodeIndex
       /\ currentState.nodeIndex = currentNodeIndex[p]

\* C17: the own cursor of every process lies in [0, node count]; executeAgentStep
\* below the node count executes the node at the old cursor and advances the
\* cursor by one, and at the node count executes nothing, leaves the cursor and
\* the agents unchanged and returns false; the shared-prefix round of
\* executeConditionalStep advances the own cursor by one and only when a node at
\* the old cursor was executed; a cursor decreases only by resetExecution (called
\* on the process, on its conditional process, or for a new branch binding).
CursorRange == \A q \in Procs : currentNodeIndex[q] \in 0..Len(nodes[q])

AgentStepRule ==
  lastCall'.op = "executeAgentStep" =>
    LET p == lastCall'.target
        c == currentNodeIndex[p]
    IN IF c < Len(nodes[p])
         THEN /\ currentNodeIndex'[p] = c + 1
              /\ Len(lastCall'.calls) = 1
              /\ lastCall'.calls[1].nodeId = nodes[p][c + 1].id
         ELSE /\ currentNodeIndex'[p] = c
              /\ lastCall'.calls = <<>>
              /\ lastCall'.ret = "false"
              /\ agents' = agents

OnlyResetDecreases ==
  \A q \in Procs :
    currentNodeIndex'[q] < currentNodeIndex[q] =>
      \/ lastCall'.op = "resetExecution" /\ lastCall'.target \in {q, Flow}
      \/ /\ q \in Linear
         /\ \E id \in (DOMAIN branchStates') \ (DOMAIN branchStates) :
              branchStates'[id].branch = q

PrefixRoundExecutesNode ==
  lastCall'.op = "executeConditionalStep" =>
    LET c == currentNodeIndex[Flow]
    IN /\ currentNodeIndex'[Flow] \in {c, c + 1}
       /\ currentNodeIndex'[Flow] = c + 1 =>
            /\ c < Len(nodes[Flow])
            /\ \E i \in 1..Len(lastCall'.calls) :
                 lastCall'.calls[i].nodeId = nodes[Flow][c + 1].id

C17_CursorRule ==
  [][CursorRange' /\ AgentStepRule /\ PrefixRoundExecutesNode /\ OnlyResetDecreases]_vars

\* C17, amended: as above, but the shared-prefix round advances the own cursor by
\* one whenever the old cursor is below the node count, executing the node at the
\* old cursor once for every agent passed to the step, none when no agent is.
PrefixRoundPerAgent ==
  lastCall'.op = "executeConditionalStep" =>
    LET c == currentNodeIndex[Flow]
    IN /\ currentNodeIndex'[Flow] = NextCursor(Flow, c)
       /\ c < Len(nodes[Flow]) =>
            [i \in 1..Len(lastCall'.calls) |-> lastCall'.calls[i].nodeId] =
              [i \in 1..Len(agents) |-> nodes[Flow][c + 1].id]

C17_CursorRuleAmended ==
  [][CursorRange' /\ AgentStepRule /\ PrefixRoundPerAgent /\ OnlyResetDecreases]_vars

\* executeAgentStep has just returned false on the two-node process, whose
\* cursor is at its node count after two nodes were executed for John.
C17_Witness ==
  /\ lastCall.op = "executeAgentStep" /\ lastCall.target = trueBranch
  /\ lastCall.ret = "false"
  /\ Len(nodes[trueBranch]) = 2 /\ currentNodeIndex[trueBranch] = 2
  /\ HasAgent(agents, "John")
  /\ BranchEntries("John", trueBranch) >= 1

\* C18: in every executeStep the predicate is evaluated for exactly the agents
\* that get their branch binding in that step, once each, with the prefix
\* exhausted, on the agent's attributes as the earlier steps left them, and the
\* agent is bound to trueBranch if the predicate is true of them and to
\* falseBranch if not; for an agent that is bound it is not evaluated again until
\* resetExecution has cleared the binding.
C18_EvaluatedOnce ==
  [][lastCall'.op = "executeStep" =>
       LET ev == lastCall'.evals
       IN /\ \A i, j \in 1..Len(ev) : ev[i].agentId = ev[j].agentId => i = j
          /\ {ev[i].agentId : i \in 1..Len(ev)} =
               (DOMAIN branchStates') \ (DOMAIN branchStates)
          /\ \A i \in 1..Len(ev) :
               LET agent == getAgentState(agents, ev[i].agentId)
               IN /\ currentNodeIndex[Flow] = Len(nodes[Flow])
                  /\ ev[i].attributes = agent.attributes
                  /\ branchStates'[agent.id].branch =
                       IF condition(agent) THEN trueBranch ELSE falseBranch]_vars

\* John, whom the prefix node has left with height 140, has been bound to the
\* false branch in the step that evaluated the predicate on those attributes.
C18_Witness ==
  /\ lastCall.op = "executeStep"
  /\ Len(nodes[Flow]) = 1
  /\ HasAgent(agents, "John")
  /\ \E i \in 1..Len(lastCall.evals) :
       /\ lastCall.evals[i].agentId = "John"
       /\ lastCall.evals[i].attributes["height"] = 140
  /\ getActiveBranch(branchStates, "John") = falseBranch
  /\ Len(History("John")) >= 1
  /\ History("John")[1].nodeId = nodes[Flow][1].id

\* C19: executeStep never raises, for every process shape, agent set and
\* capability outcome, and the agents that execute a node in a step in which a
\* call fails are those that would execute one had every call answered.
C19_NeverRaises ==
  [][lastCall'.op = "executeStep" =>
       /\ lastCall'.ret # "throws"
       /\ LET calls == lastCall'.calls
              all == executeStep([id \in AgentIds |-> Answer]).st.calls
          IN {calls[i].agentId : i \in 1..Len(calls)} =
               {all[i].agentId : i \in 1..Len(all)}]_vars

\* C20: a reply that does not parse makes the node's change set the error marker
\* _error with the raw reply _raw; the change set is merged into the agent's
\* attributes and exactly one history entry carrying it is appended.
MalformedChanges(node) ==
  [k \in {"_error", "_raw"} |->
     IF k = "_error" THEN "Invalid AI response" ELSE Respond(node, Garbage)]

C20_MalformedReply ==
  [][lastCall'.op = "executeStep" =>
       \A i \in 1..Len(lastCall'.calls) :
         LET c == lastCall'.calls[i]
             node == nodes[c.nodeId[1]][c.nodeId[2]]
             before == getAgentState(agents, c.agentId)
             after == getAgentState(agents', c.agentId)
         IN c.out = Garbage =>
              /\ after.attributes = Spread(before.attributes, MalformedChanges(node))
              /\ after.history =
                   Append(before.history,
                          [nodeId |-> node.id, changes |-> MalformedChanges(node),
                           reasoning |-> Undefined])]_vars

\* Jake's reply to the chain-of-thought node of the two-node process did not
\* parse: his attributes carry the marker and the reply with its reasoning.
C20_Witness ==
  /\ lastCall.op = "executeStep"
  /\ \E i \in 1..Len(lastCall.calls) :
       /\ lastCall.calls[i].agentId = "Jake"
       /\ lastCall.calls[i].nodeId = <<trueBranch, 2>>
       /\ lastCall.calls[i].out = Garbage
  /\ Len(History("Jake")) = 2
  /\ History("Jake")[2].changes = MalformedChanges(nodes[trueBranch][2])
  /\ getAgentState(agents, "Jake").attributes["_error"] = "Invalid AI response"
  /\ getAgentState(agents, "Jake").attributes["_raw"].items = <<Garbage, Reasoning>>

\* C21: in every reachable state each agent's attributes are the attributes it
\* was registered with merged with the change sets of its history entries in
\* history order, later values overwriting earlier ones; every call leaves each
\* agent's attributes as the merge of the old attributes with the change sets of
\* the entries the call appended, and a call that changes an agent's attributes
\* appends exactly one entry, with the identifier of the node executed for it.
RECURSIVE MergeAll(_, _)
MergeAll(attributes, entries) ==
  IF entries = <<>>
    THEN attributes
    ELSE MergeAll([k \in (DOMAIN attributes) \cup (DOMAIN Head(entries).changes) |->
                     IF k \in DOMAIN Head(entries).changes
                       THEN Head(entries).changes[k] ELSE attributes[k]],
                  Tail(entries))

C21_MergeOfHistory ==
  \A i \in 1..Len(agents) :
    \E h \in Heights :
      agents[i].attributes = MergeAll([k \in {"height"} |-> h], agents[i].history)

C21_MergeStep ==
  \A i \in 1..Len(agents) :
    LET before == agents[i]
        after == agents'[i]
        new == SubSeq(after.history, Len(before.history) + 1, Len(after.history))
    IN /\ after.history = before.history \o new
       /\ after.attributes = MergeAll(before.attributes, new)
       /\ after.attributes # before.attributes =>
            /\ Len(new) = 1
            /\ \E j \in 1..Len(lastCall'.calls) :
                 /\ lastCall'.calls[j].agentId = before.id
                 /\ lastCall'.calls[j].nodeId = new[1].nodeId

C21_AttributesAreMerge == []C21_MergeOfHistory /\ [][C21_MergeStep]_vars

\* John has executed both nodes of the two-node process: the first reply made
\* his height 140, the second added its reasoning.
C21_Witness ==
  /\ HasAgent(agents, "John")
  /\ Len(History("John")) = 2
  /\ NodeIds(History("John")) = <<<<trueBranch, 1>>, <<trueBranch, 2>>>>
  /\ getAgentState(agents, "John").attributes =
       [height |-> 140, _reasoning |-> Reasoning]
  /\ lastCall.op = "executeStep"

\* C22: under every sequence of addAgent (also with an identifier already
\* registered), initializeProcess and executeStep, every registered agent stays
\* registered and its history after a call is its history before the call
\* followed by the entries the call appended.
C22_AgentsPersist ==
  [][\A i \in 1..Len(agents) :
       /\ Len(agents') >= i
       /\ agents'[i].id = agents[i].id
       /\ Len(agents'[i].history) >= Len(agents[i].history)
       /\ SubSeq(agents'[i].history, 1, Len(agents[i].history)) = agents[i].history]_vars

\* C23: when a node execution merges a reply that parses, every attribute key
\* that is not a key of the reply's structural payload has after the execution
\* the value it had before (an absent key reading as undefined), with and without
\* chain-of-thought.
Value(attributes, k) == IF k \in DOMAIN attributes THEN attributes[k] ELSE Undefined

C23_OnlyPayloadKeys ==
  [][lastCall'.op = "executeStep" =>
       \A i \in 1..Len(lastCall'.calls) :
         LET c == lastCall'.calls[i]
             before == getAgentState(agents, c.agentId).attributes
             after == getAgentState(agents', c.agentId).attributes
         IN (c.out # Throw /\ IsJSON(c.out)) =>
              \A k \in ((DOMAIN before) \cup (DOMAIN after)) \ (DOMAIN JSONParse(c.out)) :
                Value(after, k) = Value(before, k)]_vars

\* C24: runProcess terminates: for every process and agent set, with capability
\* calls that all answer or fail, the loop of executeStep calls gets false after
\* finitely many calls. Stated over finite runs: every call of the loop that
\* returns true uses up a node still to execute (the nodes remaining never fall
\* below zero), and no call of the loop ends it by raising, so the call that
\* ends the loop is one that returned false.
Remaining ==
  LET p == currentState.currentProcessId
  IN IF p \in Linear THEN Len(nodes[p]) - currentState.nodeIndex
     ELSE (Len(nodes[Flow]) - currentNodeIndex[Flow])
          + (Len(nodes[trueBranch]) - currentNodeIndex[trueBranch])
          + (Len(nodes[falseBranch]) - currentNodeIndex[falseBranch])

C24_LoopVariant ==
  (processes # <<>> /\ lastCall'.op = "executeStep") =>
    (lastCall'.ret = "true" => Remaining' >= 0 /\ Remaining' < Remaining)

C24_RunProcessResolves ==
  /\ [](processes # <<>> => ~Returned("executeStep", "throws"))
  /\ [][C24_LoopVariant]_vars

\* C25: every run started by initializeProcess executes the process from its
\* first node: when the same process object is run to completion twice in a row,
\* with no resetExecution in between and capability calls that all answer, the
\* second run adds to every active agent as many history entries as the first,
\* for linear and for conditional processes.
SecondRun ==
  /\ Len(processes) = 1
  /\ lastCall.op = "runProcess" /\ lastCall.ret = "void"
  /\ lastCall'.op = "runProcess"
  /\ currentState'.currentProcessId = processes[1]

C25_SecondRunRepeats ==
  [][(SecondRun /\ lastCall'.ret = "void") =>
       \A i \in 1..Len(agents) :
         Len(agents'[i].history) = 2 * Len(agents[i].history)]_vars

\* C25 (amended): the second run of the same linear process resolves and adds to
\* every active agent the entries of the process's nodes again, from the first
\* node; the second run of the same conditional process, with no resetExecution
\* in between, resolves having executed no node and added no entry.
C25_SecondRunAmended ==
  [][SecondRun =>
       /\ lastCall'.ret = "void"
       /\ IF processes[1] \in Linear
            THEN \A i \in 1..Len(agents) :
                   LET n == Len(agents[i].history)
                       h == agents'[i].history
                   IN /\ Len(h) = 2 * n
                      /\ SubSeq(h, 1, n) = agents[i].history
                      /\ NodeIds(SubSeq(h, n + 1, 2 * n)) = ProcessNodeIds(processes[1], n)
            ELSE agents' = agents /\ lastCall'.calls = <<>>]_vars

C25_Witness ==
  /\ processes = <<Flow, Flow>>
  /\ Returned("runProcess", "void")
  /\ lastCall.calls = <<>>
  /\ HasAgent(agents, "Jake")
  /\ Len(History("Jake")) = Len(nodes[Flow]) + 1
  /\ Len(nodes[Flow]) = 1

\* C26: the active agent set is fixed at initializeProcess: a step executes no
\* agent outside the active set and leaves its attributes and history as they
\* are, and registering an agent under a new identifier changes neither the run
\* state, nor the process cursors and bindings, nor any agent registered before.
C26_ActiveSetFixed ==
  [][/\ lastCall'.op = "executeStep" =>
          \A i \in 1..Len(agents) :
            agents[i].id \notin Active =>
              /\ agents'[i] = agents[i]
              /\ \A k \in 1..Len(lastCall'.calls) :
                    lastCall'.calls[k].agentId # agents[i].id
     /\ lastCall'.op = "addAgent" =>
          /\ currentState' = currentState
          /\ currentNodeIndex' = currentNodeIndex
          /\ branchStates' = branchStates
          /\ \A i \in 1..Len(agents) : agents'[i] = agents[i]]_vars

C26_Witness ==
  /\ Returned("executeStep", "true")
  /\ lastCall.calls # <<>>
  /\ Active = {"Jake"}
  /\ HasAgent(agents, "John")
  /\ History("John") = <<>>
  /\ Len(History("Jake")) >= 1

\* C27: in a conditional process stepped by sequential executeStep calls no
\* agent has a branch binding while the own cursor is below the node count, and
\* within one step all active agents are in the same phase: every agent executes
\* the shared node at the cursor, or every agent does branch work; all agents
\* receive their binding in the same step.
C27_NoBindingInPrefix ==
  currentNodeIndex[Flow] < Len(nodes[Flow]) => DOMAIN branchStates = {}

C27_SamePhase ==
  (lastCall'.op = "executeStep" /\ currentState.currentProcessId = Flow) =>
    LET calls == lastCall'.calls
        cursor == currentNodeIndex[Flow]
    IN /\ IF cursor < Len(nodes[Flow])
            THEN /\ Len(calls) = Len(currentState.activeAgents)
                 /\ \A i \in 1..Len(calls) :
                       /\ calls[i].agentId = currentState.activeAgents[i]
                       /\ calls[i].nodeId = nodes[Flow][cursor + 1].id
                 /\ branchStates' = branchStates
            ELSE /\ \A i \in 1..Len(calls) : calls[i].nodeId[1] \in Linear
                 /\ Active \subseteq DOMAIN branchStates'
       /\ DOMAIN branchStates' \in {DOMAIN branchStates, DOMAIN branchStates \cup Active}

C27_OnePhasePerStep == []C27_NoBindingInPrefix /\ [][C27_SamePhase]_vars

C27_Witness ==
  /\ Returned("executeStep", "true")
  /\ currentState.currentProcessId = Flow
  /\ Active = {"Jake", "John"}
  /\ DOMAIN branchStates = {"Jake", "John"}
  /\ Len(nodes[Flow]) = 1
  /\ branchStates["Jake"].branch # branchStates["John"].branch
  /\ Len(History("Jake")) = 2 /\ Len(History("John")) = 2

\* C28: when executeStep is invoked again on a linear run before the previous
\* invocation has resolved, it is still the case that every agent executes each
\* node of the process at most once and in order with no node skipped, and the
\* run cursor never exceeds the node count (stated for a run of a process with
\* at least one node whose capability calls all answer, so that an agent's
\* history lists the nodes it executed).
LinearRun ==
  /\ currentState.currentProcessId \in Linear
  /\ Len(nodes[currentState.currentProcessId]) >= 1

HistoryInOrder(id) ==
  LET p == currentState.currentProcessId
      n == Len(History(id))
  IN n <= Len(nodes[p]) /\ NodeIds(History(id)) = ProcessNodeIds(p, n)

C28_OverlapKeepsOrder ==
  LinearRun =>
    /\ currentState.nodeIndex <= Len(nodes[currentState.currentProcessId])
    /\ \A id \in Active : HistoryInOrder(id)

\* C28 (amended): when every executeStep of the run is invoked after the
\* previous invocation has resolved, every agent executes each node at most once
\* and in order with no node skipped and the run cursor never exceeds the node
\* count: the run starts in step, and every transition made while no overlapping
\* invocation is in progress keeps it in step.
InStep ==
  LET p == currentState.currentProcessId
      cursor == currentState.nodeIndex
  IN /\ cursor <= Len(nodes[p])
     /\ currentState.isComplete <=> cursor = Len(nodes[p])
     /\ pending.awaiting => cursor < Len(nodes[p])
     /\ ~pending.awaiting => pending.executions = {}
     /\ \A e \in pending.executions :
          e.node = nodes[p][cursor + 1] /\ e.agentId \in Active
     /\ \A id \in Active :
          /\ HistoryInOrder(id)
          /\ Len(History(id)) =
               IF pending.awaiting /\ (\A e \in pending.executions : e.agentId # id)
                 THEN cursor + 1
                 ELSE cursor

C28_SequentialStep ==
  (LinearRun /\ InStep /\ ~overlap.awaiting /\ ~overlap'.awaiting) => InStep'

C28_SequentialKeepsOrder ==
  /\ []((LinearRun /\ Returned("initializeProcess", "void") /\ ~pending.awaiting
         /\ ~overlap.awaiting) => InStep)
  /\ [][C28_SequentialStep]_vars

C28_Witness ==
  /\ currentState.currentProcessId = trueBranch
  /\ Len(nodes[trueBranch]) = 2
  /\ Active = {"Jake", "John"}
  /\ InStep
  /\ ~overlap.awaiting
  /\ pending.awaiting
  /\ currentState.nodeIndex = 1
  /\ Len(History("Jake")) = 1 /\ Len(History("John")) = 2

====
